---- MODULE Spec2Model ----
(***************************************************************************)
(* A model of the HERE Maps helper functions of                            *)
(* template/utilities/geospatial/HERE_Maps_API (geocoding.py, routing.py). *)
(*                                                                         *)
(* Every helper is a synchronous function: it issues at most one HTTP      *)
(* request and reshapes the JSON reply.  A step of the model is one call   *)
(* of one helper by a sequential caller, with arguments and an HTTP reply  *)
(* drawn from small sets.  The state records the call, the requests it     *)
(* issued, the reply it got, what it printed and how it ended (return or   *)
(* raise).  The caller then drops the result and is free to call again.    *)
(*                                                                         *)
(* Python values are tagged records [t |-> type, v |-> value]; dicts are   *)
(* records, lists are sequences.                                           *)
(***************************************************************************)
EXTENDS Integers, Sequences, FiniteSets, TLC

\* The keys of the dicts and table columns of the model.  Record constructors
\* list their fields in this order throughout.
DictKeys ==
    [Index1 |-> 0, Index2 |-> 0, Input1 |-> 0, Input2 |-> 0, action |-> 0,
     address |-> 0, apikey |-> 0, at |-> 0, bearerAuth |-> 0, borders |-> 0,
     bound |-> 0, categories |-> 0, city |-> 0, countries |-> 0, country |->
     0, countryCode |-> 0, countryName |-> 0, data |-> 0, data_to |-> 0,
     departureTime |-> 0, dest_index |-> 0, destination |-> 0, destinations
     |-> 0, distances |-> 0, duration |-> 0, ended |-> 0, errorCodes |-> 0,
     exc |-> 0, extra_duration |-> 0, fieldScore |-> 0, houseNumber |-> 0,
     http |-> 0, include_same |-> 0, items |-> 0, json |-> 0, kind |-> 0,
     label |-> 0, lat |-> 0, latitude |-> 0, latitude_x |-> 0, latitude_y |->
     0, latlong |-> 0, length |-> 0, limit |-> 0, lng |-> 0, local_states |->
     0, long |-> 0, longitude |-> 0, longitude_x |-> 0, longitude_y |-> 0,
     match_quality_city |-> 0, match_quality_country |-> 0,
     match_quality_district |-> 0, match_quality_number |-> 0,
     match_quality_postal_code |-> 0, match_quality_state |-> 0,
     match_quality_street |-> 0, matrix |-> 0, matrixAttributes |-> 0,
     matrixId |-> 0, method |-> 0, mile_or_meter |-> 0, mode |-> 0, modes |->
     0, name |-> 0, names |-> 0, none |-> 0, num |-> 0, numDestinations |->
     0, numOrigins |-> 0, object |-> 0, ok |-> 0, orig_index |-> 0, origin
     |-> 0, origins |-> 0, out |-> 0, outcome |-> 0, params |-> 0, per |-> 0,
     position |-> 0, postActions |-> 0, postalCode |-> 0, preActions |-> 0,
     profile |-> 0, q |-> 0, queryScore |-> 0, regionDefinition |-> 0,
     relevance |-> 0, reply |-> 0, responseattributes |-> 0, results |-> 0,
     return |-> 0, route |-> 0, routes |-> 0, routingMode |-> 0, score |-> 0,
     scoring |-> 0, section |-> 0, sections |-> 0, sent |-> 0, size |-> 0,
     spans |-> 0, state |-> 0, stateCode |-> 0, states |-> 0, status |-> 0,
     stdout |-> 0, street |-> 0, streets |-> 0, string |-> 0, sum_duration
     |-> 0, sum_length |-> 0, summarize |-> 0, summary |-> 0, summary_only
     |-> 0, table |-> 0, text |-> 0, title |-> 0, transport |-> 0,
     transportMode |-> 0, travelTimes |-> 0, type |-> 0, unique |-> 0, url
     |-> 0, value |-> 0]

VARIABLES
    fn,       \* name of the helper the caller called last ("" when idle)
    args,     \* the arguments of that call
    http,     \* the HTTP requests the call issued, in order
    reply,    \* what the HTTP layer answered to the call (NoReply if nothing was sent)
    outcome,  \* how the call ended: Return(value) or Raise(exception)
    stdout,   \* what the call printed
    held,     \* the raw route response object the caller holds (NoObject if none)
    uses      \* number of process_routing calls made on the held object

vars == <<fn, args, http, reply, outcome, stdout, held, uses>>

-----------------------------------------------------------------------------
(* Bounds of the model *)

MaxItems == 2      \* items in a geocoding reply
MaxLimit == 2      \* the limit argument of the geocoding helpers
MaxSections == 2   \* sections of the first route of a routing reply
MaxPoints == 2     \* rows of an origin / destination table
MaxLen == 3        \* elements of a list given to all_combinations
MaxUses == 2       \* process_routing calls on one held response object

-----------------------------------------------------------------------------
(* Python values *)

None == [t |-> "NoneType"]
S(s) == [t |-> "str", v |-> s]
I(n) == [t |-> "int", v |-> n]
B(b) == [t |-> "bool", v |-> b]

IsNum(x) == x.t \in {"bool", "int"}
NumVal(x) == IF x.t = "bool" THEN (IF x.v THEN 1 ELSE 0) ELSE x.v

\* Python ==: bool is a subclass of int, so True == 1 and False == 0.
PyEq(a, b) ==
    IF IsNum(a) /\ IsNum(b) THEN NumVal(a) = NumVal(b)
    ELSE /\ a.t = b.t
         /\ (a.t = "NoneType" \/ a.v = b.v)

\* Python `x in [..]`: membership by ==.
PyIn(x, list) == \E i \in 1..Len(list) : PyEq(x, list[i])

\* Python truth value, as `if x:` tests it.
Truthy(x) ==
    CASE x.t = "NoneType" -> FALSE
      [] x.t = "bool" -> x.v
      [] x.t = "int" -> x.v # 0
      [] x.t = "str" -> x.v # ""

\* Python str(x).
Str(x) ==
    CASE x.t = "NoneType" -> "None"
      [] x.t = "bool" -> (IF x.v THEN "True" ELSE "False")
      [] x.t = "int" -> ToString(x.v)
      [] x.t = "str" -> x.v

\* dict.get(key): None when the key is missing.
DictGet(dict, key) == IF key \in DOMAIN dict THEN dict[key] ELSE None

\* sep.join(list) for a list of Python strings given as TLA+ strings.
RECURSIVE Join(_, _)
Join(sep, list) ==
    IF Len(list) = 0 THEN ""
    ELSE IF Len(list) = 1 THEN list[1]
    ELSE list[1] \o sep \o Join(sep, Tail(list))

Return(value) == [kind |-> "return", value |-> value]
Raise(exc) == [exc |-> exc, kind |-> "raise"]

-----------------------------------------------------------------------------
(* The HTTP layer (requests.get / requests.post) *)

NoReply == [ok |-> FALSE, sent |-> FALSE]
TransportFailure == [ok |-> FALSE, sent |-> TRUE]
Json(json) == [json |-> json, ok |-> TRUE, sent |-> TRUE]

HttpGet(url, params) == [method |-> "GET", params |-> params, url |-> url]
HttpPost(url, params, data) ==
    [data |-> data, method |-> "POST", params |-> params, url |-> url]

\* What a helper hands back to the step that called it.
Ended(o, requests, net) == [http |-> requests, outcome |-> o, reply |-> net]

ApiKey == "KEY"

-----------------------------------------------------------------------------
(* geocoding.py: replies of the geocode / revgeocode / browse endpoints *)

\* An item with every optional field present.
ItemFull ==
    [address |-> [city |-> S("Washington"),
                  countryName |-> S("United States"),
                  label |-> S("1600 Pennsylvania Ave NW, Washington, DC 20500"),
                  postalCode |-> S("20500"),
                  state |-> S("District of Columbia"),
                  street |-> S("Pennsylvania Ave NW")],
     position |-> [lat |-> I(38), lng |-> I(-77)],
     scoring |-> [fieldScore |-> [city |-> I(1), country |-> I(1), houseNumber |-> I(1),
                                  postalCode |-> I(1), state |-> I(1),
                                  streets |-> <<I(1)>>],
                  queryScore |-> I(1)]]

\* An item without the optional fields (no state, city, street, postal code).
ItemBare ==
    [address |-> [countryName |-> S("France"), label |-> S("France")],
     position |-> [lat |-> I(48), lng |-> I(2)],
     scoring |-> [fieldScore |-> [country |-> I(1)], queryScore |-> I(0)]]

\* A second complete item, so that the order of a reply's items shows.
ItemOther ==
    [address |-> [city |-> S("Sydney"),
                  countryName |-> S("Australia"),
                  label |-> S("Sydney NSW 2000, Australia"),
                  postalCode |-> S("2000"),
                  state |-> S("New South Wales")],
     position |-> [lat |-> I(-33), lng |-> I(151)],
     scoring |-> [fieldScore |-> [city |-> I(1), country |-> I(1)],
                  queryScore |-> I(1)]]

Items == {ItemFull, ItemBare, ItemOther}

SeqsUpTo(elements, max) == UNION {[1..len -> elements] : len \in 0..max}

\* An error body of the API: no 'items' key.
GeoErrorJson == [status |-> I(401), title |-> S("Unauthorized")]

\* The API is an external service: the number of items it returns is its own
\* choice, whatever limit the request carried.
GeoReplies ==
    {Json([items |-> its]) : its \in SeqsUpTo(Items, MaxItems)}
        \cup {Json(GeoErrorJson), TransportFailure}

Addresses == {"1600 pennsylvania ave, Washington, DC", "nowhere"}
LatLongs == {"38.8789,-76", "0,0"}
Limits == 1..MaxLimit
Categories == {None, S("600-6100-0062,600-6200-0063")}
Names == {None, S("countryCode:USA")}

-----------------------------------------------------------------------------
(* geocoding.py: get_latlong *)

LatLongSentinel ==
    [address |-> S(""), country |-> S(""), lat |-> S(""), long |-> S(""),
     score |-> I(0), state |-> S(""), string |-> S("ERROR")]

LatLongRecord(this_item) ==
    LET latitude == this_item.position.lat
        longitude == this_item.position.lng
        fieldScore == this_item.scoring.fieldScore
    IN [address |-> this_item.address.label,
        country |-> this_item.address.countryName,
        lat |-> latitude,
        long |-> longitude,
        match_quality_city |-> DictGet(fieldScore, "city"),
        match_quality_country |-> DictGet(fieldScore, "country"),
        match_quality_district |-> DictGet(fieldScore, "district"),
        match_quality_number |-> DictGet(fieldScore, "houseNumber"),
        match_quality_postal_code |-> DictGet(fieldScore, "postalCode"),
        match_quality_state |-> DictGet(fieldScore, "state"),
        match_quality_street |->
            IF "streets" \in DOMAIN fieldScore THEN fieldScore.streets[1] ELSE None,
        relevance |-> this_item.scoring.queryScore,
        state |-> DictGet(this_item.address, "state"),
        string |-> S(Str(latitude) \o "," \o Str(longitude))]

LatLongRequest(address, api_key, limit) ==
    LET URL == "https://geocode.search.hereapi.com/v1/geocode"
        PARAMS == [apikey |-> api_key, limit |-> limit, q |-> address,
                   responseattributes |-> "[matchQuality, matchType, matchCode]"]
    IN  <<HttpGet(URL, PARAMS)>>

\* The part of get_latlong after the zero-item check.
LatLongOutput(out, summarize) ==
    IF summarize
    THEN [idx \in 1..Len(out) |-> LatLongRecord(out[idx])]
    ELSE out

\* get_latlong without its zero-item check.
get_latlong_NoSentinel(address, api_key, summarize, limit, net) ==
    LET requests == LatLongRequest(address, api_key, limit)
    IN  IF ~net.ok THEN Ended(Raise("ConnectionError"), requests, net)
        ELSE IF "items" \notin DOMAIN net.json
             THEN Ended(Raise("KeyError"), requests, net)
        ELSE Ended(Return(LatLongOutput(net.json.items, summarize)), requests, net)

\* get_latlong cutting its output down to `limit` records.
get_latlong_Truncating(address, api_key, summarize, limit, net) ==
    LET requests == LatLongRequest(address, api_key, limit)
    IN  IF ~net.ok THEN Ended(Raise("ConnectionError"), requests, net)
        ELSE IF "items" \notin DOMAIN net.json
             THEN Ended(Raise("KeyError"), requests, net)
        ELSE IF Len(net.json.items) = 0
             THEN Ended(Return(<<LatLongSentinel>>), requests, net)
        ELSE IF Len(net.json.items) > limit
             THEN Ended(Return(LatLongOutput(SubSeq(net.json.items, 1, limit), summarize)),
                        requests, net)
        ELSE Ended(Return(LatLongOutput(net.json.items, summarize)), requests, net)

get_latlong(address, api_key, summarize, limit, net) ==
    LET requests == LatLongRequest(address, api_key, limit)
    IN  IF ~net.ok THEN Ended(Raise("ConnectionError"), requests, net)
        ELSE IF "items" \notin DOMAIN net.json
             THEN Ended(Raise("KeyError"), requests, net)
        ELSE IF Len(net.json.items) = 0
             THEN Ended(Return(<<LatLongSentinel>>), requests, net)
        ELSE Ended(Return(LatLongOutput(net.json.items, summarize)), requests, net)

-----------------------------------------------------------------------------
(* geocoding.py: get_address *)

AddressSentinel ==
    [address |-> S(""), city |-> S(""), country |-> S(""), latitude |-> S("ERROR"),
     longitude |-> S("ERROR"), postalCode |-> S(""), state |-> S(""),
     street |-> S("")]

AddressRecord(this_item) ==
    LET this_address == this_item.address
    IN [address |-> this_address.label,
        city |-> DictGet(this_address, "city"),
        country |-> this_address.countryName,
        latitude |-> this_item.position.lat,
        longitude |-> this_item.position.lng,
        postalCode |-> DictGet(this_address, "postalCode"),
        state |-> DictGet(this_address, "state"),
        street |-> DictGet(this_address, "street")]

get_address(latlong, api_key, summarize, limit, net) ==
    LET URL == "https://geocode.search.hereapi.com/v1/revgeocode"
        PARAMS == [apikey |-> api_key, at |-> latlong, limit |-> limit]
        requests == <<HttpGet(URL, PARAMS)>>
    IN  IF ~net.ok THEN Ended(Raise("ConnectionError"), requests, net)
        ELSE IF "items" \notin DOMAIN net.json \/ Len(net.json.items) = 0
             THEN Ended(Return(<<AddressSentinel>>), requests, net)
        ELSE LET output == [idx \in 1..Len(net.json.items) |->
                               AddressRecord(net.json.items[idx])]
             IN  IF summarize
                 THEN Ended(Return(output), requests, net)
                 ELSE Ended(Return(net.json.items), requests, net)

-----------------------------------------------------------------------------
(* geocoding.py: browse_address *)

\* The record of the summarize loop: 'city' is read from 'state', and
\* 'postalCode' is a subscript (KeyError when the item has none).
BrowseRecord(this_item) ==
    LET this_address == this_item.address
    IN [address |-> this_address.label,
        city |-> DictGet(this_address, "state"),
        country |-> this_address.countryName,
        latitude |-> this_item.position.lat,
        longitude |-> this_item.position.lng,
        postalCode |-> this_address.postalCode,
        state |-> DictGet(this_address, "state"),
        street |-> DictGet(this_address, "street")]

\* The filters are added to the request only when they are given.
BrowseParams(latlong, api_key, categories, names, limit) ==
    IF categories # None /\ names # None
    THEN [apikey |-> api_key, at |-> latlong, categories |-> categories,
          limit |-> limit, names |-> names]
    ELSE IF categories # None
    THEN [apikey |-> api_key, at |-> latlong, categories |-> categories,
          limit |-> limit]
    ELSE IF names # None
    THEN [apikey |-> api_key, at |-> latlong, limit |-> limit, names |-> names]
    ELSE [apikey |-> api_key, at |-> latlong, limit |-> limit]

\* The zero-item branch builds its record from this_address and this_item,
\* locals that are only assigned further down, inside the summarize loop:
\* reading them raises UnboundLocalError.
browse_address(latlong, api_key, categories, names, summarize, limit, net) ==
    LET URL == "https://geocode.search.hereapi.com/v1/browse"
        PARAMS == BrowseParams(latlong, api_key, categories, names, limit)
        requests == <<HttpGet(URL, PARAMS)>>
    IN  IF ~net.ok THEN Ended(Raise("ConnectionError"), requests, net)
        ELSE IF "items" \notin DOMAIN net.json
             THEN Ended(Raise("KeyError"), requests, net)
        ELSE IF Len(net.json.items) = 0
             THEN Ended(Raise("UnboundLocalError"), requests, net)
        ELSE IF summarize
             THEN IF \E idx \in 1..Len(net.json.items) :
                        "postalCode" \notin DOMAIN net.json.items[idx].address
                  THEN Ended(Raise("KeyError"), requests, net)
                  ELSE Ended(Return([idx \in 1..Len(net.json.items) |->
                                        BrowseRecord(net.json.items[idx])]),
                             requests, net)
        ELSE Ended(Return(net.json.items), requests, net)

-----------------------------------------------------------------------------
(* routing.py: replies of the routing endpoint *)

\* Numbers.  A length is an int (meters, as the API sends it) until
\* process_routing divides it by 1609.34; the quotient is kept exactly, as
\* num / 1609.34^per.
Float(num, per) == [t |-> "float", v |-> [num |-> num, per |-> per]]

\* x / 1609.34
DivMile(x) ==
    CASE x.t = "int" -> Float(x.v, 1)
      [] x.t = "float" -> Float(x.v.num, x.v.per + 1)

\* x + y
Add(x, y) ==
    CASE x.t = "int" /\ y.t = "int" -> I(x.v + y.v)
      [] x.t = "int" /\ y.t = "float" /\ x.v = 0 -> y
      [] x.t = "float" /\ y.t = "float" /\ x.v.per = y.v.per ->
            Float(x.v.num + y.v.num, x.v.per)

\* A car section crossing two states of one country.
SectionCar ==
    [spans |-> <<[countryCode |-> S("USA"), stateCode |-> S("MD")],
                 [countryCode |-> S("USA"), stateCode |-> S("VA")]>>,
     summary |-> [duration |-> I(600), length |-> I(16093)],
     transport |-> [mode |-> S("car")]]

\* A walking section with actions before and after it, and no spans.
SectionWalk ==
    [postActions |-> <<[action |-> S("arrive"), duration |-> I(7)]>>,
     preActions |-> <<[action |-> S("depart"), duration |-> I(5)],
                      [action |-> S("board"), duration |-> I(3)]>>,
     summary |-> [duration |-> I(90), length |-> I(120)],
     transport |-> [mode |-> S("pedestrian")]]

\* A car section in another country; its span carries no state code.
SectionAbroad ==
    [spans |-> <<[countryCode |-> S("CAN")]>>,
     summary |-> [duration |-> I(300), length |-> I(5000)],
     transport |-> [mode |-> S("car")]]

Sections == {SectionCar, SectionWalk, SectionAbroad}

SectionLists == UNION {[1..len -> Sections] : len \in 1..MaxSections}

\* An alternative route, which the flattening never reads.
AlternativeRoute == [sections |-> <<SectionAbroad>>]

\* An error body of the API: a top-level 'status', and no 'routes'.
RouteErrorJson == [status |-> I(400), title |-> S("Malformed request")]

NoRouteJson == [routes |-> <<>>]

RouteJsons ==
    {[routes |-> <<[sections |-> secs]>>] : secs \in SectionLists}
        \cup {[routes |-> <<[sections |-> <<SectionCar, SectionWalk>>], AlternativeRoute>>],
              RouteErrorJson, NoRouteJson}

RouteReplies == {Json(json) : json \in RouteJsons} \cup {TransportFailure}

\* The order in which Python iterates a set of strings is not fixed (string
\* hashes are salted per process).  A call sees the members of its sets in one
\* of two opposite orders.
HashOrders ==
    {[countries |-> <<"CAN", "USA">>, modes |-> <<"car", "pedestrian">>,
      states |-> <<"MD", "VA">>],
     [countries |-> <<"USA", "CAN">>, modes |-> <<"pedestrian", "car">>,
      states |-> <<"VA", "MD">>]}

\* list(set): the members of the set, in the order the process iterates them.
ListOfSet(members, rank) == SelectSeq(rank, LAMBDA name : name \in members)

Origin == "38.8789,-76"
Destination == "38.9,-77.03"

-----------------------------------------------------------------------------
(* routing.py: get_route_info *)

TransportModeList ==
    <<S("pedestrian"), S("car"), S("truck"), S("bicycle"), S("scooter")>>

RouteParams(origin, destination, api_key, transportMode, departureTime, routingMode, return_value) ==
    [apikey |-> api_key, departureTime |-> departureTime, destination |-> destination,
     origin |-> origin, return |-> return_value, routingMode |-> routingMode,
     transportMode |-> transportMode]

RouteParamsSpans(origin, destination, api_key, transportMode, departureTime, routingMode, return_value, spans) ==
    [apikey |-> api_key, departureTime |-> departureTime, destination |-> destination,
     origin |-> origin, return |-> return_value, routingMode |-> routingMode,
     spans |-> Join(",", spans), transportMode |-> transportMode]

\* The request, once the checks have passed.
RouteRequest(origin, destination, api_key, transportMode, departureTime, routingMode, spans, net) ==
    LET URL == "https://router.hereapi.com/v8/routes"
        PARAMS == IF Len(spans) # 0
                  THEN RouteParamsSpans(origin, destination, api_key, transportMode,
                                        departureTime, routingMode, "summary,polyline",
                                        spans)
                  ELSE RouteParams(origin, destination, api_key, transportMode,
                                   departureTime, routingMode, "summary")
        requests == <<HttpGet(URL, PARAMS)>>
    IN  IF ~net.ok THEN Ended(Raise("ConnectionError"), requests, net)
        ELSE Ended(Return(net.json), requests, net)

\* The part of get_route_info after its check of transportMode.
RouteChecked(origin, destination, api_key, transportMode, departureTime, routingMode, borders, net) ==
    IF Truthy(borders)
    THEN IF PyEq(borders, S("country"))
         THEN RouteRequest(origin, destination, api_key, transportMode, departureTime,
                           routingMode, <<"countryCode">>, net)
         ELSE IF PyEq(borders, S("state"))
         THEN RouteRequest(origin, destination, api_key, transportMode, departureTime,
                           routingMode, <<"countryCode,stateCode">>, net)
         ELSE Ended(Raise("ValueError"), <<>>, NoReply)
    ELSE RouteRequest(origin, destination, api_key, transportMode, departureTime,
                      routingMode, <<>>, net)

\* get_route_info without its check of transportMode.
get_route_info_Unchecked(origin, destination, api_key, transportMode, departureTime, routingMode, borders, net) ==
    RouteChecked(origin, destination, api_key, transportMode, departureTime, routingMode,
                 borders, net)

get_route_info(origin, destination, api_key, transportMode, departureTime, routingMode, borders, net) ==
    IF ~PyIn(transportMode, TransportModeList)
    THEN Ended(Raise("AssertionError"), <<>>, NoReply)
    ELSE RouteChecked(origin, destination, api_key, transportMode, departureTime,
                      routingMode, borders, net)

-----------------------------------------------------------------------------
(* routing.py: process_routing *)

NoRouteSummary == [duration |-> None, length |-> None]

RECURSIVE SumDurations(_)
SumDurations(actions) ==
    IF Len(actions) = 0 THEN 0
    ELSE actions[1].duration.v + SumDurations(Tail(actions))

\* `if section.get(key): for action in section.get(key): ... += action['duration']`
ActionsDuration(section, key) ==
    IF key \in DOMAIN section /\ Len(section[key]) # 0
    THEN SumDurations(section[key])
    ELSE 0

\* The codes of one kind ('countryCode' or 'stateCode') of a section's spans, in
\* span order; spans without the code (or with an empty one) are skipped.
RECURSIVE SpanCodes(_, _)
SpanCodes(spans, key) ==
    IF Len(spans) = 0 THEN <<>>
    ELSE IF Truthy(DictGet(spans[1], key))
         THEN <<spans[1][key].v>> \o SpanCodes(Tail(spans), key)
         ELSE SpanCodes(Tail(spans), key)

LocalCodes(section, key) ==
    IF "spans" \in DOMAIN section THEN SpanCodes(section.spans, key) ELSE <<>>

Members(list) == {list[idx] : idx \in 1..Len(list)}

\* The row of the per-section table: 'countries' and 'states' only when the
\* section has such codes; duration and length as section['summary'] has them
\* after the unit conversion.
SectionItem(route_id, section_id, this_mode, local_countries, local_states, summary, additional_duration) ==
    IF Len(local_countries) # 0 /\ Len(local_states) # 0
    THEN [countries |-> S(Join("|", local_countries)), duration |-> summary.duration,
          extra_duration |-> I(additional_duration), length |-> summary.length,
          mode |-> this_mode, route |-> I(route_id), section |-> I(section_id),
          states |-> S(Join("|", local_states))]
    ELSE IF Len(local_countries) # 0
    THEN [countries |-> S(Join("|", local_countries)), duration |-> summary.duration,
          extra_duration |-> I(additional_duration), length |-> summary.length,
          mode |-> this_mode, route |-> I(route_id), section |-> I(section_id)]
    ELSE IF Len(local_states) # 0
    THEN [duration |-> summary.duration,
          extra_duration |-> I(additional_duration), length |-> summary.length,
          mode |-> this_mode, route |-> I(route_id), section |-> I(section_id),
          states |-> S(Join("|", local_states))]
    ELSE [duration |-> summary.duration,
          extra_duration |-> I(additional_duration), length |-> summary.length,
          mode |-> this_mode, route |-> I(route_id), section |-> I(section_id)]

\* section['summary']['length'] = section['summary']['length'] / 1609.34, in
\* place, when miles are asked for.
\* The conversion left out: lengths stay as the response has them.
ConvertSection_Never(section, mile_or_meter) == section

ConvertSection(section, mile_or_meter) ==
    IF PyEq(mile_or_meter, S("mile"))
    THEN [section EXCEPT !.summary.length = DivMile(@)]
    ELSE section

\* The state of the loop over the sections before it has run.
LoopStart ==
    [bound |-> FALSE, countries |-> {}, local_states |-> <<>>, modes |-> {},
     results |-> <<>>, sections |-> <<>>, states |-> {}, sum_duration |-> 0,
     sum_length |-> I(0)]

\* One iteration of the loop, for the section with 0-based index section_id.
LoopBody(acc, section_id, section, mile_or_meter) ==
    LET additional_duration ==
            ActionsDuration(section, "preActions") + ActionsDuration(section, "postActions")
        this_mode == DictGet(section.transport, "mode")
        local_countries == LocalCodes(section, "countryCode")
        local_states == LocalCodes(section, "stateCode")
        converted == ConvertSection(section, mile_or_meter)
    IN  [bound |-> TRUE,
         countries |-> acc.countries \cup Members(local_countries),
         local_states |-> local_states,
         modes |-> acc.modes \cup {this_mode.v},
         results |-> Append(acc.results,
                            SectionItem(0, section_id, this_mode, local_countries,
                                        local_states, converted.summary,
                                        additional_duration)),
         sections |-> Append(acc.sections, converted),
         states |-> acc.states \cup Members(local_states),
         sum_duration |-> acc.sum_duration + converted.summary.duration.v
                             + additional_duration,
         sum_length |-> Add(acc.sum_length, converted.summary.length)]

RECURSIVE Loop(_, _, _, _)
Loop(acc, sections, section_id, mile_or_meter) ==
    IF section_id >= Len(sections) THEN acc
    ELSE Loop(LoopBody(acc, section_id, sections[section_id + 1], mile_or_meter),
              sections, section_id + 1, mile_or_meter)

DataFrame(records) == records

\* The summary dict: 'countries' when some section had a country code;
\* 'states' when local_states, the list of the LAST section, is not empty.
SummaryOutput(acc, summary_table, hashOrder) ==
    LET modes == S(Join("|", ListOfSet(acc.modes, hashOrder.modes)))
        countries == S(Join("|", ListOfSet(acc.countries, hashOrder.countries)))
        states == S(Join("|", ListOfSet(acc.states, hashOrder.states)))
    IN  IF acc.countries # {} /\ Len(acc.local_states) # 0
        THEN [countries |-> countries, duration |-> I(acc.sum_duration),
              length |-> acc.sum_length, modes |-> modes, states |-> states,
              table |-> summary_table]
        ELSE IF acc.countries # {}
        THEN [countries |-> countries, duration |-> I(acc.sum_duration),
              length |-> acc.sum_length, modes |-> modes, table |-> summary_table]
        ELSE IF Len(acc.local_states) # 0
        THEN [duration |-> I(acc.sum_duration), length |-> acc.sum_length,
              modes |-> modes, states |-> states, table |-> summary_table]
        ELSE [duration |-> I(acc.sum_duration), length |-> acc.sum_length,
              modes |-> modes, table |-> summary_table]

\* What process_routing hands back: how it ended, and the object `out` it was
\* given as the call leaves it.
Processed(o, object) == [object |-> object, outcome |-> o]

\* The part of process_routing after its two checks: the loop over the
\* sections of the first route, and the summary.
FlattenRoute(out, summary_only, mile_or_meter, hashOrder) ==
    LET acc == Loop(LoopStart, out.routes[1].sections, 0, mile_or_meter)
        routes == [out.routes EXCEPT ![1].sections = acc.sections]
        summary_table == DataFrame(acc.results)
        summary_output == SummaryOutput(acc, summary_table, hashOrder)
    IN  IF ~acc.bound
        THEN Processed(Raise("UnboundLocalError"),
                       [routes |-> routes, summary |-> summary_table])
        ELSE IF Truthy(summary_only)
        THEN Processed(Return(summary_output),
                       [routes |-> routes, summary |-> summary_table])
        ELSE Processed(Return([routes |-> routes, summary |-> summary_output]),
                       [routes |-> routes, summary |-> summary_output])

\* process_routing without its check of 'status': out['routes'] is read next.
process_routing_NoStatusCheck(out, summary_only, mile_or_meter, hashOrder) ==
    IF "routes" \notin DOMAIN out THEN Processed(Raise("KeyError"), out)
    ELSE IF Len(out.routes) = 0 THEN Processed(Return(NoRouteSummary), out)
    ELSE FlattenRoute(out, summary_only, mile_or_meter, hashOrder)

process_routing(out, summary_only, mile_or_meter, hashOrder) ==
    IF DictGet(out, "status") # None THEN Processed(Return(NoRouteSummary), out)
    ELSE IF "routes" \notin DOMAIN out THEN Processed(Raise("KeyError"), out)
    ELSE IF Len(out.routes) = 0 THEN Processed(Return(NoRouteSummary), out)
    ELSE FlattenRoute(out, summary_only, mile_or_meter, hashOrder)

-----------------------------------------------------------------------------
(* routing.py: get_driving_info, get_walking_info, get_any_routing_info *)

\* `out = get_route_info(...); return process_routing(out, ...)`
RouteAndProcess(origin, destination, api_key, transportMode, summary_only, mile_or_meter, borders, net, hashOrder) ==
    LET routed == get_route_info(origin, destination, api_key, transportMode, "any",
                                 "fast", borders, net)
    IN  IF routed.outcome.kind = "raise" THEN routed
        ELSE Ended(process_routing(routed.outcome.value, summary_only, mile_or_meter,
                                   hashOrder).outcome,
                   routed.http, routed.reply)

get_driving_info(origin, destination, api_key, summary_only, mile_or_meter, borders, net, hashOrder) ==
    IF ~PyIn(mile_or_meter, <<S("mile"), S("meter")>>)
    THEN Ended(Raise("AssertionError"), <<>>, NoReply)
    ELSE IF ~PyIn(summary_only, <<B(TRUE), B(FALSE)>>)
    THEN Ended(Raise("AssertionError"), <<>>, NoReply)
    ELSE RouteAndProcess(origin, destination, api_key, S("car"), summary_only,
                         mile_or_meter, borders, net, hashOrder)

get_walking_info(origin, destination, api_key, summary_only, mile_or_meter, borders, net, hashOrder) ==
    IF ~PyIn(mile_or_meter, <<S("mile"), S("meter")>>)
    THEN Ended(Raise("AssertionError"), <<>>, NoReply)
    ELSE IF ~PyIn(summary_only, <<B(TRUE), B(FALSE)>>)
    THEN Ended(Raise("AssertionError"), <<>>, NoReply)
    ELSE RouteAndProcess(origin, destination, api_key, S("pedestrian"), summary_only,
                         mile_or_meter, borders, net, hashOrder)

get_any_routing_info(origin, destination, api_key, transportMode, summary_only, mile_or_meter, borders, net, hashOrder) ==
    IF ~PyIn(mile_or_meter, <<S("mile"), S("meter")>>)
    THEN Ended(Raise("AssertionError"), <<>>, NoReply)
    ELSE IF ~PyIn(summary_only, <<B(TRUE), B(FALSE)>>)
    THEN Ended(Raise("AssertionError"), <<>>, NoReply)
    ELSE IF ~PyIn(transportMode, TransportModeList)
    THEN Ended(Raise("AssertionError"), <<>>, NoReply)
    ELSE RouteAndProcess(origin, destination, api_key, transportMode, summary_only,
                         mile_or_meter, borders, net, hashOrder)

-----------------------------------------------------------------------------
(* pandas: a DataFrame is the sequence of its rows, a row a record of its
   columns *)

Table(rows) == [t |-> "DataFrame", v |-> rows]
List(elements) == [t |-> "list", v |-> elements]

\* pd.merge(left.assign(key=0), right.assign(key=0), on='key'): every row of
\* left with every row of right, the rows of left in order and, for each, the
\* rows of right in order.  The result lists the pairs <<row of left, row of right>>.
CrossJoin(left, right) ==
    [pos \in 1..(Len(left) * Len(right)) |->
        <<left[((pos - 1) \div Len(right)) + 1], right[((pos - 1) % Len(right)) + 1]>>]

-----------------------------------------------------------------------------
(* routing.py: calculate_matrix_routing *)

PointHome == [latitude |-> 38, longitude |-> -77, name |-> "home"]
PointWork == [latitude |-> 39, longitude |-> -76, name |-> "work"]
Points == {PointHome, PointWork}

PointTables == UNION {[1..len -> Points] : len \in 1..MaxPoints}

World == [type |-> "world"]
Profiles == {None, S("truckFast")}
AccessToken == "TOKEN"

\* origins[["latitude", "longitude"]].rename(...).to_dict(orient='records')
WayPoints(rows) ==
    [pos \in 1..Len(rows) |-> [lat |-> rows[pos].latitude, lng |-> rows[pos].longitude]]

\* The request body: 'destinations' and 'profile' only when they are given.
\* (The model calls the helper without extra keyword options.)
MatrixData(origins, destinations, regionDefinition, profile) ==
    LET attributes == <<"travelTimes", "distances">>
    IN  IF destinations # None /\ profile # None
        THEN [destinations |-> WayPoints(destinations.v),
              matrixAttributes |-> attributes, origins |-> WayPoints(origins.v),
              profile |-> profile, regionDefinition |-> regionDefinition]
        ELSE IF destinations # None
        THEN [destinations |-> WayPoints(destinations.v),
              matrixAttributes |-> attributes, origins |-> WayPoints(origins.v),
              regionDefinition |-> regionDefinition]
        ELSE IF profile # None
        THEN [matrixAttributes |-> attributes, origins |-> WayPoints(origins.v),
              profile |-> profile, regionDefinition |-> regionDefinition]
        ELSE [matrixAttributes |-> attributes, origins |-> WayPoints(origins.v),
              regionDefinition |-> regionDefinition]

\* origins[['latitude', 'longitude']] with origins['orig_index'] = range(n)
WithOrigIndex(rows) ==
    [pos \in 1..Len(rows) |->
        [latitude |-> rows[pos].latitude, longitude |-> rows[pos].longitude,
         orig_index |-> pos - 1]]

\* destinations[['latitude', 'longitude']] with destinations['dest_index'] = range(m)
WithDestIndex(rows) ==
    [pos \in 1..Len(rows) |->
        [dest_index |-> pos - 1, latitude |-> rows[pos].latitude,
         longitude |-> rows[pos].longitude]]

\* The joined row: the columns the two tables share get the suffixes _x and _y.
MatrixPair(orig, dest) ==
    [dest_index |-> dest.dest_index, latitude_x |-> orig.latitude,
     latitude_y |-> dest.latitude, longitude_x |-> orig.longitude,
     longitude_y |-> dest.longitude, orig_index |-> orig.orig_index]

\* Sorting by (dest_index, orig_index) instead.
MatrixBefore_DestFirst(row1, row2) ==
    \/ row1.dest_index < row2.dest_index
    \/ /\ row1.dest_index = row2.dest_index
       /\ row1.orig_index < row2.orig_index

MatrixBefore(row1, row2) ==
    \/ row1.orig_index < row2.orig_index
    \/ /\ row1.orig_index = row2.orig_index
       /\ row1.dest_index < row2.dest_index

\* The cartesian join of the two tables, sorted by (orig_index, dest_index).
MatrixJoin(origins, destinations) ==
    LET pairs == CrossJoin(WithOrigIndex(origins), WithDestIndex(destinations))
        merged == [pos \in 1..Len(pairs) |-> MatrixPair(pairs[pos][1], pairs[pos][2])]
    IN  SortSeq(merged, MatrixBefore)

\* output['travelTimes'] = ..., output['distances'] = ..., output['errorCodes'] = ...:
\* a list is assigned by position; errorCodes is 0 when the API sent none.
MatrixColumns(joined, matrix) ==
    [pos \in 1..Len(joined) |->
        [dest_index |-> joined[pos].dest_index,
         distances |-> matrix.distances[pos],
         errorCodes |-> IF "errorCodes" \in DOMAIN matrix
                        THEN matrix.errorCodes[pos] ELSE 0,
         latitude_x |-> joined[pos].latitude_x, latitude_y |-> joined[pos].latitude_y,
         longitude_x |-> joined[pos].longitude_x,
         longitude_y |-> joined[pos].longitude_y,
         orig_index |-> joined[pos].orig_index,
         travelTimes |-> matrix.travelTimes[pos]]]

\* pandas refuses a list whose length is not the number of rows.
ColumnsFit(joined, matrix) ==
    /\ Len(matrix.travelTimes) = Len(joined)
    /\ Len(matrix.distances) = Len(joined)
    /\ "errorCodes" \in DOMAIN matrix => Len(matrix.errorCodes) = Len(joined)

MatrixMetadata(out) ==
    [matrixId |-> out.matrixId, numDestinations |-> out.matrix.numDestinations,
     numOrigins |-> out.matrix.numOrigins, regionDefinition |-> out.regionDefinition]

\* What the helper hands back: Ended(...) and the lines it printed.
Printed(ended, lines) == [ended |-> ended, stdout |-> lines]

MatrixRequest(api_key, access_token, origins, destinations, regionDefinition, profile) ==
    LET URL == "https://matrix.router.hereapi.com/v8/matrix?async=false"
        PARAMS == [apikey |-> api_key, bearerAuth |-> access_token]
        DATA == MatrixData(origins, destinations, regionDefinition, profile)
    IN  <<HttpPost(URL, PARAMS, DATA)>>

\* The part of calculate_matrix_routing after its check of 'status'.
MatrixResult(origins, destinations, requests, net) ==
    LET dests == IF destinations = None THEN origins ELSE destinations
        output == MatrixJoin(origins.v, dests.v)
    IN  IF "matrix" \notin DOMAIN net.json
        THEN Printed(Ended(Raise("KeyError"), requests, net), <<>>)
        ELSE IF ~ColumnsFit(output, net.json.matrix)
        THEN Printed(Ended(Raise("ValueError"), requests, net), <<>>)
        ELSE Printed(Ended(Return(<<Table(MatrixColumns(output, net.json.matrix)),
                                    MatrixMetadata(net.json)>>),
                           requests, net),
                     <<>>)

\* calculate_matrix_routing without its check of 'status'.
calculate_matrix_routing_NoStatusCheck(api_key, access_token, origins, destinations, regionDefinition, profile, net) ==
    LET requests == MatrixRequest(api_key, access_token, origins, destinations,
                                  regionDefinition, profile)
    IN  IF ~net.ok THEN Printed(Ended(Raise("ConnectionError"), requests, net), <<>>)
        ELSE MatrixResult(origins, destinations, requests, net)

calculate_matrix_routing(api_key, access_token, origins, destinations, regionDefinition, profile, net) ==
    LET requests == MatrixRequest(api_key, access_token, origins, destinations,
                                  regionDefinition, profile)
    IN  IF ~net.ok THEN Printed(Ended(Raise("ConnectionError"), requests, net), <<>>)
        ELSE IF DictGet(net.json, "status") # None
             THEN Printed(Ended(Return(None), requests, net),
                          <<[object |-> net.json, text |-> "Error: {}"]>>)
        ELSE MatrixResult(origins, destinations, requests, net)

\* The replies of the matrix endpoint to a request for n x m pairs.  The entry
\* for pair number k (0-based, row-major) is base + k or base - k, so that the
\* entries of a reply differ from one another.
Ramp(size, base, step) == [pos \in 1..size |-> base + step * (pos - 1)]

MatrixJson(numOrigins, numDestinations, step) ==
    [matrix |-> [distances |-> Ramp(numOrigins * numDestinations, 5000, step),
                 numDestinations |-> numDestinations, numOrigins |-> numOrigins,
                 travelTimes |-> Ramp(numOrigins * numDestinations, 600, -step)],
     matrixId |-> S("0a1b2c"), regionDefinition |-> World]

MatrixJsonCodes(numOrigins, numDestinations, step) ==
    [matrix |-> [distances |-> Ramp(numOrigins * numDestinations, 5000, step),
                 errorCodes |-> Ramp(numOrigins * numDestinations, 0, 1),
                 numDestinations |-> numDestinations, numOrigins |-> numOrigins,
                 travelTimes |-> Ramp(numOrigins * numDestinations, 600, -step)],
     matrixId |-> S("0a1b2c"), regionDefinition |-> World]

MatrixErrorJson == [status |-> I(403), title |-> S("Forbidden")]

MatrixReplies(numOrigins, numDestinations) ==
    {Json(MatrixJson(numOrigins, numDestinations, step)) : step \in {-1, 1}}
        \cup {Json(MatrixJsonCodes(numOrigins, numDestinations, step)) : step \in {-1, 1}}
        \cup {Json(MatrixJson(numOrigins, numDestinations + 1, 1)),
              Json(MatrixErrorJson), TransportFailure}

-----------------------------------------------------------------------------
(* routing.py: all_combinations *)

Values == {"A", "B"}
ValueLists == UNION {[1..len -> Values] : len \in 0..MaxLen}

\* pd.DataFrame(data, columns=["Input1"]) with Index1 = range(n)
Dataset1(data) == [pos \in 1..Len(data) |-> [Index1 |-> pos - 1, Input1 |-> data[pos]]]

\* pd.DataFrame(data_to, columns=["Input2"]) with Index2 = range(m)
Dataset2(data) == [pos \in 1..Len(data) |-> [Index2 |-> pos - 1, Input2 |-> data[pos]]]

CombinationPair(row1, row2) ==
    [Index1 |-> row1.Index1, Index2 |-> row2.Index2, Input1 |-> row1.Input1,
     Input2 |-> row2.Input2]

CombinationBefore(row1, row2) ==
    \/ row1.Index1 < row2.Index1
    \/ /\ row1.Index1 = row2.Index1
       /\ row1.Index2 < row2.Index2

\* The uniqueness mask with < in place of <=.
UniqueMask_Strict(row) == row.Index1 < row.Index2

UniqueMask(row) == row.Index1 <= row.Index2
NotSameMask(row) == row.Index1 # row.Index2

\* all_combinations applying its two filters also when data_to is given.
all_combinations_AlwaysFilter(data, data_to, unique, include_same) ==
    LET dataset1 == Dataset1(data.v)
        dataset2 == IF data_to = None THEN Dataset2(data.v) ELSE Dataset2(data_to.v)
        pairs == CrossJoin(dataset1, dataset2)
        merged == [pos \in 1..Len(pairs) |-> CombinationPair(pairs[pos][1], pairs[pos][2])]
        joined == SortSeq(merged, CombinationBefore)
        uniqued == IF unique THEN SelectSeq(joined, UniqueMask) ELSE joined
        output == IF ~include_same THEN SelectSeq(uniqued, NotSameMask) ELSE uniqued
    IN  Ended(Return(Table(output)), <<>>, NoReply)

all_combinations(data, data_to, unique, include_same) ==
    LET dataset1 == Dataset1(data.v)
        dataset2 == IF data_to = None THEN Dataset2(data.v) ELSE Dataset2(data_to.v)
        pairs == CrossJoin(dataset1, dataset2)
        merged == [pos \in 1..Len(pairs) |-> CombinationPair(pairs[pos][1], pairs[pos][2])]
        joined == SortSeq(merged, CombinationBefore)
        uniqued == IF data_to = None /\ unique THEN SelectSeq(joined, UniqueMask) ELSE joined
        output == IF data_to = None /\ ~include_same
                  THEN SelectSeq(uniqued, NotSameMask) ELSE uniqued
    IN  Ended(Return(Table(output)), <<>>, NoReply)

-----------------------------------------------------------------------------
(* State machine: a sequential caller *)

NoArgs == [none |-> TRUE]
NoObject == [none |-> TRUE]
NoOutcome == [kind |-> "none"]

Init ==
    /\ fn = ""
    /\ args = NoArgs
    /\ http = <<>>
    /\ reply = NoReply
    /\ outcome = NoOutcome
    /\ stdout = <<>>
    /\ held = NoObject
    /\ uses = 0

Idle == fn = ""

\* The caller's step for a helper that prints nothing and keeps no object.
Call(name, arguments, ended) ==
    /\ fn' = name
    /\ args' = arguments
    /\ http' = ended.http
    /\ reply' = ended.reply
    /\ outcome' = ended.outcome
    /\ stdout' = <<>>
    /\ held' = NoObject
    /\ uses' = 0

GetLatLong ==
    \E address \in Addresses, summarize \in BOOLEAN, limit \in Limits, net \in GeoReplies :
        /\ Idle
        /\ Call("get_latlong",
                [address |-> address, limit |-> limit, summarize |-> summarize],
                get_latlong(address, ApiKey, summarize, limit, net))

GetAddress ==
    \E latlong \in LatLongs, summarize \in BOOLEAN, limit \in Limits, net \in GeoReplies :
        /\ Idle
        /\ Call("get_address",
                [latlong |-> latlong, limit |-> limit, summarize |-> summarize],
                get_address(latlong, ApiKey, summarize, limit, net))

BrowseAddress ==
    \E latlong \in LatLongs, categories \in Categories, names \in Names,
       summarize \in BOOLEAN, limit \in Limits, net \in GeoReplies :
        /\ Idle
        /\ Call("browse_address",
                [categories |-> categories, latlong |-> latlong, limit |-> limit,
                 names |-> names, summarize |-> summarize],
                browse_address(latlong, ApiKey, categories, names, summarize, limit, net))

ModeArgs == {S("truck"), S("rocket"), None}
BorderArgs == {None, S("country"), S("state"), S(""), S("county")}
SummaryOnlyArgs == {B(TRUE), B(FALSE), I(1), S("yes")}
UnitArgs == {S("mile"), S("meter"), S("km")}
DepartureTimes == {"any", "2019-06-24T01:23:45"}
RoutingModes == {"fast", "short"}

\* get_route_info: the caller keeps the raw response it gets back.
GetRouteInfo ==
    \E transportMode \in ModeArgs, departureTime \in DepartureTimes,
       routingMode \in RoutingModes, borders \in BorderArgs, net \in RouteReplies :
        LET ended == get_route_info(Origin, Destination, ApiKey, transportMode,
                                    departureTime, routingMode, borders, net)
        IN  /\ Idle
            /\ fn' = "get_route_info"
            /\ args' = [borders |-> borders, departureTime |-> departureTime,
                        routingMode |-> routingMode, transportMode |-> transportMode]
            /\ http' = ended.http
            /\ reply' = ended.reply
            /\ outcome' = ended.outcome
            /\ stdout' = <<>>
            /\ held' = IF ended.outcome.kind = "return" THEN ended.outcome.value
                       ELSE NoObject
            /\ uses' = 0

\* process_routing on the response object the caller holds; the object stays
\* with the caller as the call leaves it.
ProcessRouting ==
    \E summary_only \in {B(TRUE), B(FALSE)}, mile_or_meter \in {S("mile"), S("meter")},
       hashOrder \in HashOrders :
        LET processed == process_routing(held, summary_only, mile_or_meter, hashOrder)
        IN  /\ held # NoObject
            /\ uses < MaxUses
            /\ fn' = "process_routing"
            /\ args' = [mile_or_meter |-> mile_or_meter, out |-> held,
                        summary_only |-> summary_only]
            /\ http' = <<>>
            /\ reply' = NoReply
            /\ outcome' = processed.outcome
            /\ stdout' = <<>>
            /\ held' = processed.object
            /\ uses' = uses + 1

GetDrivingInfo ==
    \E summary_only \in SummaryOnlyArgs, mile_or_meter \in UnitArgs,
       borders \in BorderArgs, net \in RouteReplies, hashOrder \in HashOrders :
        /\ Idle
        /\ Call("get_driving_info",
                [borders |-> borders, mile_or_meter |-> mile_or_meter,
                 summary_only |-> summary_only],
                get_driving_info(Origin, Destination, ApiKey, summary_only, mile_or_meter,
                                 borders, net, hashOrder))

GetWalkingInfo ==
    \E summary_only \in SummaryOnlyArgs, mile_or_meter \in UnitArgs,
       borders \in BorderArgs, net \in RouteReplies, hashOrder \in HashOrders :
        /\ Idle
        /\ Call("get_walking_info",
                [borders |-> borders, mile_or_meter |-> mile_or_meter,
                 summary_only |-> summary_only],
                get_walking_info(Origin, Destination, ApiKey, summary_only, mile_or_meter,
                                 borders, net, hashOrder))

GetAnyRoutingInfo ==
    \E transportMode \in ModeArgs, summary_only \in SummaryOnlyArgs,
       mile_or_meter \in UnitArgs, borders \in BorderArgs, net \in RouteReplies,
       hashOrder \in HashOrders :
        /\ Idle
        /\ Call("get_any_routing_info",
                [borders |-> borders, mile_or_meter |-> mile_or_meter,
                 summary_only |-> summary_only, transportMode |-> transportMode],
                get_any_routing_info(Origin, Destination, ApiKey, transportMode,
                                     summary_only, mile_or_meter, borders, net, hashOrder))

CalculateMatrixRouting ==
    \E origins \in PointTables,
       destinations \in {None} \cup {Table(rows) : rows \in PointTables},
       profile \in Profiles :
        \E net \in MatrixReplies(Len(origins),
                                 IF destinations = None THEN Len(origins)
                                 ELSE Len(destinations.v)) :
            LET printed == calculate_matrix_routing(ApiKey, AccessToken, Table(origins),
                                                    destinations, World, profile, net)
            IN  /\ Idle
                /\ fn' = "calculate_matrix_routing"
                /\ args' = [destinations |-> destinations, origins |-> Table(origins),
                            profile |-> profile]
                /\ http' = printed.ended.http
                /\ reply' = printed.ended.reply
                /\ outcome' = printed.ended.outcome
                /\ stdout' = printed.stdout
                /\ held' = NoObject
                /\ uses' = 0

AllCombinations ==
    \E data \in ValueLists, data_to \in {None} \cup {List(list) : list \in ValueLists},
       unique \in BOOLEAN, include_same \in BOOLEAN :
        /\ Idle
        /\ Call("all_combinations",
                [data |-> List(data), data_to |-> data_to, include_same |-> include_same,
                 unique |-> unique],
                all_combinations(List(data), data_to, unique, include_same))

\* The caller is done with the result of its last call.
Discard ==
    /\ ~Idle
    /\ fn' = ""
    /\ args' = NoArgs
    /\ http' = <<>>
    /\ reply' = NoReply
    /\ outcome' = NoOutcome
    /\ stdout' = <<>>
    /\ held' = NoObject
    /\ uses' = 0

Next ==
    \/ GetLatLong
    \/ GetAddress
    \/ BrowseAddress
    \/ GetRouteInfo
    \/ ProcessRouting
    \/ GetDrivingInfo
    \/ GetWalkingInfo
    \/ GetAnyRoutingInfo
    \/ CalculateMatrixRouting
    \/ AllCombinations
    \/ Discard

Spec == Init /\ [][Next]_vars


-----------------------------------------------------------------------------
(* Properties. Each is a predicate on the state the last call left behind. *)

\* The last call got a parsed response that carries an 'items' list.
ItemsReply == reply.ok /\ "items" \in DOMAIN reply.json

Min(a, b) == IF a <= b THEN a ELSE b

\* `record` is the summary record that get_latlong builds from `item`.
BuiltFrom(record, item) ==
    /\ record.lat = item.position.lat
    /\ record.long = item.position.lng
    /\ record.address = item.address.label
    /\ record.country = item.address.countryName
    /\ record.relevance = item.scoring.queryScore
    /\ record = LatLongRecord(item)

\* C1 (as the specification states it): browse_address, given a successful
\* response whose 'items' list is empty, returns a single placeholder record
\* carrying the "ERROR" marker and does not raise.
C1_BrowseEmptyGivesSentinel ==
    (fn = "browse_address" /\ ItemsReply /\ Len(reply.json.items) = 0)
        => /\ outcome.kind = "return"
           /\ Len(outcome.value) = 1
           /\ outcome.value[1].string = S("ERROR")

\* C2: get_latlong, for every address, summarize flag and limit, given a
\* response whose 'items' list is empty, returns a list of exactly one record
\* whose 'string' is "ERROR" and whose 'lat' and 'long' are the empty string,
\* and does not raise.
C2_LatLongEmptyGivesSentinel ==
    (fn = "get_latlong" /\ ItemsReply /\ Len(reply.json.items) = 0)
        => /\ outcome.kind = "return"
           /\ Len(outcome.value) = 1
           /\ outcome.value[1].string = S("ERROR")
           /\ outcome.value[1].lat = S("")
           /\ outcome.value[1].long = S("")

C2_Witness ==
    /\ fn = "get_latlong"
    /\ ItemsReply
    /\ Len(reply.json.items) = 0
    /\ args.summarize
    /\ outcome = Return(<<LatLongSentinel>>)

ValidTransportMode(transportMode) ==
    /\ transportMode.t = "str"
    /\ transportMode.v \in {"pedestrian", "car", "truck", "bicycle", "scooter"}

C4_BadTransportModeRaisesUnsent ==
    (fn \in {"get_route_info", "get_any_routing_info"}
     /\ ~ValidTransportMode(args.transportMode))
        => /\ outcome.kind = "raise"
           /\ Len(http) = 0

C4_Witness ==
    /\ fn = "get_route_info"
    /\ args.transportMode = S("rocket")
    /\ args.borders = S("state")
    /\ outcome = Raise("AssertionError")
    /\ http = <<>>

\* C5 (as the specification states it): for get_driving_info, get_walking_info
\* and get_any_routing_info, a mile_or_meter outside {mile, meter}, a
\* summary_only that is not a boolean, or a borders outside {None, country,
\* state} makes the call raise with no HTTP request issued.
ValidUnit(mile_or_meter) ==
    mile_or_meter.t = "str" /\ mile_or_meter.v \in {"mile", "meter"}

ValidBorders(borders) ==
    \/ borders = None
    \/ borders.t = "str" /\ borders.v \in {"country", "state"}

C5_BadEnumerationRaisesUnsent ==
    (fn \in {"get_driving_info", "get_walking_info", "get_any_routing_info"}
     /\ \/ ~ValidUnit(args.mile_or_meter)
        \/ args.summary_only.t # "bool"
        \/ ~ValidBorders(args.borders))
        => /\ outcome.kind = "raise"
           /\ Len(http) = 0

\* C6: process_routing, for every raw response that carries a top-level
\* 'status' or whose 'routes' list is empty, returns a summary whose duration
\* and length are both None, for both values of summary_only and both units,
\* and does not raise.
NoRouteFound(out) ==
    \/ DictGet(out, "status") # None
    \/ "routes" \in DOMAIN out /\ Len(out.routes) = 0

C6_NoRouteGivesNoneSummary ==
    (fn = "process_routing" /\ NoRouteFound(args.out))
        => /\ outcome.kind = "return"
           /\ DOMAIN outcome.value = {"duration", "length"}
           /\ outcome.value.duration = None
           /\ outcome.value.length = None

C6_Witness ==
    /\ fn = "process_routing"
    /\ DictGet(args.out, "status") # None
    /\ args.summary_only = B(FALSE)
    /\ args.mile_or_meter = S("meter")
    /\ outcome = Return(NoRouteSummary)

\* The destinations the last matrix call worked with: the origins when no
\* destination table was passed.
MatrixDestinations ==
    IF args.destinations = None THEN args.origins.v ELSE args.destinations.v

\* The last matrix call got a response without 'status' whose arrays have one
\* entry per (origin, destination) pair.
MatrixSuccess ==
    /\ fn = "calculate_matrix_routing"
    /\ reply.ok
    /\ DictGet(reply.json, "status") = None
    /\ ColumnsFit([k \in 1..(Len(args.origins.v) * Len(MatrixDestinations)) |-> k],
                  reply.json.matrix)

\* C7: calculate_matrix_routing, on a successful response for n origins and m
\* destinations (the origins themselves when no destination table is given),
\* returns a table of exactly n*m rows; row k (0-based) holds the coordinates
\* of origin k div m and of destination k mod m, and travelTimes[k],
\* distances[k] and, when the response has them, errorCodes[k].
C7_MatrixRowOrder ==
    MatrixSuccess
        => /\ outcome.kind = "return"
           /\ LET table == outcome.value[1].v
                  origins == args.origins.v
                  dests == MatrixDestinations
                  n == Len(origins)
                  m == Len(dests)
                  matrix == reply.json.matrix
              IN  /\ Len(table) = n * m
                  /\ \A k \in 0..(n * m - 1) :
                        /\ table[k + 1].orig_index = k \div m
                        /\ table[k + 1].dest_index = k % m
                        /\ table[k + 1].latitude_x = origins[(k \div m) + 1].latitude
                        /\ table[k + 1].longitude_x = origins[(k \div m) + 1].longitude
                        /\ table[k + 1].latitude_y = dests[(k % m) + 1].latitude
                        /\ table[k + 1].longitude_y = dests[(k % m) + 1].longitude
                        /\ table[k + 1].travelTimes = matrix.travelTimes[k + 1]
                        /\ table[k + 1].distances = matrix.distances[k + 1]
                        /\ "errorCodes" \in DOMAIN matrix
                              => table[k + 1].errorCodes = matrix.errorCodes[k + 1]

C7_Witness ==
    /\ MatrixSuccess
    /\ args.origins.v = <<PointHome, PointWork>>
    /\ args.destinations = Table(<<PointWork, PointHome>>)
    /\ "errorCodes" \in DOMAIN reply.json.matrix
    /\ outcome.kind = "return"
    /\ Len(outcome.value[1].v) = 4

\* The pair (i, j) is one that all_combinations keeps for a single list.
Kept(i, j, unique, include_same) ==
    /\ unique => i <= j
    /\ ~include_same => i # j

\* C8: all_combinations with a single list of n elements, for every
\* combination of unique and include_same, returns exactly the rows
\* (data[i], data[j], i, j), 0 <= i, j < n, with (unique => i <= j) and
\* (~include_same => i # j), each once, in ascending (i, j) order; with
\* unique = TRUE and include_same = FALSE these are the n(n-1)/2 pairs i < j.
C8_SingleListFilters ==
    (fn = "all_combinations" /\ args.data_to = None)
        => /\ outcome.kind = "return"
           /\ LET rows == outcome.value.v
                  data == args.data.v
                  n == Len(data)
              IN  /\ \A r \in 1..Len(rows) :
                        /\ rows[r].Index1 \in 0..(n - 1)
                        /\ rows[r].Index2 \in 0..(n - 1)
                        /\ rows[r].Input1 = data[rows[r].Index1 + 1]
                        /\ rows[r].Input2 = data[rows[r].Index2 + 1]
                        /\ Kept(rows[r].Index1, rows[r].Index2,
                                args.unique, args.include_same)
                  /\ \A i, j \in 0..(n - 1) :
                        Kept(i, j, args.unique, args.include_same)
                            => \E r \in 1..Len(rows) :
                                   rows[r].Index1 = i /\ rows[r].Index2 = j
                  /\ \A r \in 1..(Len(rows) - 1) :
                        CombinationBefore(rows[r], rows[r + 1])
                  /\ (args.unique /\ ~args.include_same)
                        => /\ 2 * Len(rows) = n * (n - 1)
                           /\ \A r \in 1..Len(rows) : rows[r].Index1 < rows[r].Index2

C8_Witness ==
    /\ fn = "all_combinations"
    /\ args.data_to = None
    /\ Len(args.data.v) = MaxLen
    /\ args.unique
    /\ args.include_same
    /\ outcome.kind = "return"
    /\ 2 * Len(outcome.value.v) = MaxLen * (MaxLen + 1)

\* C9: all_combinations with two lists A (n elements) and B (m elements)
\* returns exactly n*m rows in row-major order, row i*m + j being
\* (A[i], B[j], i, j), whatever unique and include_same are: no filter is
\* applied, also when A and B hold equal values.
C9_TwoListsUnfiltered ==
    (fn = "all_combinations" /\ args.data_to # None)
        => /\ outcome.kind = "return"
           /\ LET rows == outcome.value.v
                  first == args.data.v
                  second == args.data_to.v
                  n == Len(first)
                  m == Len(second)
              IN  /\ Len(rows) = n * m
                  /\ \A i \in 0..(n - 1), j \in 0..(m - 1) :
                        rows[i * m + j + 1] =
                            [Index1 |-> i, Index2 |-> j, Input1 |-> first[i + 1],
                             Input2 |-> second[j + 1]]

C9_Witness ==
    /\ fn = "all_combinations"
    /\ args.data_to # None
    /\ args.data.v = <<"A", "B">>
    /\ args.data_to.v = <<"A", "B">>
    /\ args.unique
    /\ ~args.include_same
    /\ outcome.kind = "return"
    /\ Len(outcome.value.v) = 4

\* C10: calculate_matrix_routing, given a response that carries a top-level
\* 'status', prints the error and returns None (no table, no metadata); it
\* does not raise, and it does not read the 'matrix' arrays, which such a
\* response does not have.
C10_MatrixStatusGivesNone ==
    (fn = "calculate_matrix_routing" /\ reply.ok /\ DictGet(reply.json, "status") # None)
        => /\ outcome = Return(None)
           /\ stdout = <<[object |-> reply.json, text |-> "Error: {}"]>>
           /\ "matrix" \notin DOMAIN reply.json

C10_Witness ==
    /\ fn = "calculate_matrix_routing"
    /\ reply.ok
    /\ DictGet(reply.json, "status") # None
    /\ args.destinations = None
    /\ outcome = Return(None)
    /\ Len(stdout) = 1

\* The last call was process_routing on a response without 'status' that has
\* at least one route.
RouteProcessed ==
    /\ fn = "process_routing"
    /\ DictGet(args.out, "status") = None
    /\ "routes" \in DOMAIN args.out
    /\ Len(args.out.routes) > 0

\* The sections of the first route of the response the last call was given.
GivenSections == args.out.routes[1].sections

\* The sum of the section lengths, added up from the left as numbers.
RECURSIVE SumLengths(_, _)
SumLengths(total, sections) ==
    IF Len(sections) = 0 THEN total
    ELSE SumLengths(Add(total, sections[1].summary.length), Tail(sections))

\* The summary dict of a returned value: the value itself, or its 'summary'
\* entry when the whole response was returned.
SummaryOf(value) == IF "summary" \in DOMAIN value THEN value.summary ELSE value

\* A length in the unit asked for: unchanged, or divided by 1609.34.
InUnit(length, mile_or_meter) ==
    IF mile_or_meter = S("mile") THEN DivMile(length) ELSE length

\* C11: process_routing on a response with at least one route returns a total
\* 'length' equal to the sum L of the first route's section lengths, as the
\* response it is given has them (meters, from the API), when the unit is
\* 'meter', and to L / 1609.34 when it is 'mile'; the per-section lengths of
\* the summary table are in the same unit.
C11_LengthInUnit ==
    RouteProcessed
        => /\ outcome.kind = "return"
           /\ LET summary == SummaryOf(outcome.value)
              IN  /\ summary.length =
                        InUnit(SumLengths(I(0), GivenSections), args.mile_or_meter)
                  /\ Len(summary.table) = Len(GivenSections)
                  /\ \A i \in 1..Len(GivenSections) :
                        summary.table[i].length =
                            InUnit(GivenSections[i].summary.length, args.mile_or_meter)

C11_Witness ==
    /\ RouteProcessed
    /\ GivenSections = <<SectionCar, SectionWalk>>
    /\ args.mile_or_meter = S("mile")
    /\ outcome.kind = "return"
    /\ SummaryOf(outcome.value).length = Float(16213, 1)

\* The distinct codes of one kind in the spans of all the given sections.
AllCodes(key) ==
    UNION {Members(LocalCodes(GivenSections[i], key)) : i \in 1..Len(GivenSections)}

\* The summary's entry `entry` is the pipe-joined set `codes`, in some order
\* of iteration, and is there whenever `codes` is not empty.
EntryJoins(summary, entry, codes) ==
    /\ codes # {} => entry \in DOMAIN summary
    /\ entry \in DOMAIN summary =>
          \E hashOrder \in HashOrders :
              summary[entry] = S(Join("|", ListOfSet(codes, hashOrder[entry])))

\* C12 (as the specification states it): process_routing on a response whose
\* first route has any number of sections returns a summary whose 'countries'
\* (resp. 'states') entry is the pipe-joined set of exactly the distinct
\* country (resp. state) codes of the spans of all sections, and the entry is
\* present whenever some section, in any position, carries such a code.
C12_CodesOfAllSections ==
    RouteProcessed
        => /\ outcome.kind = "return"
           /\ EntryJoins(SummaryOf(outcome.value), "countries", AllCodes("countryCode"))
           /\ EntryJoins(SummaryOf(outcome.value), "states", AllCodes("stateCode"))

\* C13 (as the specification states it): calling process_routing a second
\* time on the same response object with the same flags returns the same
\* duration and length as the first call, and a call leaves the section
\* lengths of the response it was given unchanged.
C13_SecondCallSameTotals ==
    [][(/\ RouteProcessed
        /\ outcome.kind = "return"
        /\ fn' = "process_routing"
        /\ args'.out = held
        /\ args'.mile_or_meter = args.mile_or_meter
        /\ args'.summary_only = args.summary_only)
          => /\ outcome'.kind = "return"
             /\ SummaryOf(outcome'.value).duration = SummaryOf(outcome.value).duration
             /\ SummaryOf(outcome'.value).length = SummaryOf(outcome.value).length
             /\ \A i \in 1..Len(GivenSections) :
                   held.routes[1].sections[i].summary.length
                       = GivenSections[i].summary.length]_vars

====
